---- MODULE Spec2Model ----
(***************************************************************************)
(* Model of the HTTP remediation service of src/index.js: one endpoint,   *)
(* POST /execute, that routes a remediation request to the Cloudflare      *)
(* firewall API, to Jira, or to a Slack webhook.                           *)
(*                                                                         *)
(* A handler invocation runs on Node's single thread until its next        *)
(* `await`; every run-to-the-next-await is one action of the model.        *)
(* JavaScript values are strings here: a JSON string is itself, and the    *)
(* values undefined and null are the reserved strings below.  Texts built  *)
(* with template literals are the sequences of their parts.                *)
(***************************************************************************)
EXTENDS Integers, Sequences, FiniteSets, TLC

\* Number of request slots (connections the server can hold at once).
MaxReq == 2
\* Last reading of the wall clock (new Date()) the model distinguishes.
MaxClock == 1

Reqs == 1..MaxReq

(***************************************************************************)
(* JavaScript values and conversions                                       *)
(***************************************************************************)
Undefined == "<undefined>"
Null == "<null>"

\* The values JavaScript treats as false in `!v` and `v || d`.
Falsy == {Undefined, Null, "", "<false>", "<0>"}

Truthy(v) == v \notin Falsy

\* a || d
OrElse(v, d) == IF Truthy(v) THEN v ELSE d

\* `${v}` inside a template literal
ToStr(v) == IF v = Undefined THEN "undefined" ELSE IF v = Null THEN "null" ELSE v

\* `${JSON.stringify(v, null, 2)}`: a string is quoted, null and undefined are not
JsonStringify(v) ==
  IF v \in {Undefined, Null}
  THEN [quoted |-> FALSE, text |-> ToStr(v)]
  ELSE [quoted |-> TRUE, text |-> v]

\* action.replaceAll("_", " ").toUpperCase(), for the actions that reach it
ReplaceAllUpper(action) ==
  CASE action = "rate_limit_ip" -> "RATE LIMIT IP"
    [] action = "add_waf_rule" -> "ADD WAF RULE"
    [] action = "block_endpoint" -> "BLOCK ENDPOINT"
    [] OTHER -> action

(***************************************************************************)
(* Process environment                                                     *)
(***************************************************************************)
EnvVars == {"JIRA_BASE", "JIRA_MAIL", "JIRA_API", "JIRA_PROJECT",
            "SLACK_WEBHOOK_URL", "CF_ZONE_ID", "CF_API_TOKEN"}

AllSet == [v \in EnvVars |-> "configured"]
NoneSet == [v \in EnvVars |-> Undefined]

\* The deployments explored: everything configured, nothing configured, and
\* every deployment with exactly one variable absent or set to the empty string.
Environments ==
  {AllSet, NoneSet} \cup
  {[AllSet EXCEPT ![v] = x] : v \in EnvVars, x \in {Undefined, ""}}

(***************************************************************************)
(* Requests                                                                *)
(***************************************************************************)
KnownActions == {"block_ip", "rate_limit_ip", "add_waf_rule", "block_endpoint", "alert_sre"}
TicketActions == {"rate_limit_ip", "add_waf_rule", "block_endpoint"}

Actions == KnownActions \cup {Undefined, Null, "", "Block_IP", "ALERT_SRE", "reboot"}
Targets == {Undefined, "203.0.113.7", "198.51.100.9"}
Severities == {Undefined, Null, "high", "High", "HIGH", "medium", "low"}
Threats == {Undefined, "SQLi"}

\* req.body as express.json() hands it over; a field the request leaves out
\* is Undefined, so the all-Undefined record is the body {}.
Bodies ==
  {b \in [action : Actions, target : Targets, severity : Severities, threat : Threats] :
     b.threat # Undefined => b.action = "alert_sre"}

\* The requests of the concurrent workload.
ConcBodies ==
  {b \in Bodies :
     /\ b.action \in {"block_ip", "add_waf_rule", "alert_sre", Undefined}
     /\ b.target # Undefined
     /\ b.severity = "high"
     /\ b.threat = Undefined}

NoBody == [action |-> Undefined, target |-> Undefined, severity |-> Undefined, threat |-> Undefined]

(***************************************************************************)
(* Remote replies                                                          *)
(***************************************************************************)
RAbsent == [shape |-> "absent", id |-> Undefined]
RNull == [shape |-> "null", id |-> Undefined]
RObj(id) == [shape |-> "object", id |-> id]

EAbsent == [present |-> FALSE, items |-> <<>>]
EList(msgs) == [present |-> TRUE, items |-> [k \in DOMAIN msgs |-> [message |-> msgs[k]]]]

\* A reply body after response.json(): not JSON ("garbled"), the JSON value
\* null, or an object with the fields the code reads.
NoData == [shape |-> "none", success |-> Undefined, result |-> RAbsent, errors |-> EAbsent, key |-> Undefined]
Garbled == [NoData EXCEPT !.shape = "garbled"]
JsonNull == [NoData EXCEPT !.shape = "null"]
CfObject(success, result, errors) ==
  [shape |-> "object", success |-> success, result |-> result, errors |-> errors, key |-> Undefined]
JiraObject(key) == [NoData EXCEPT !.shape = "object", !.key = key]

CfBodies ==
  {Garbled, JsonNull} \cup
  {CfObject("<true>", r, EList(<<>>)) :
     r \in {RAbsent, RNull, RObj("rule-1"), RObj("rule-2"), RObj(Undefined)}} \cup
  {CfObject("<false>", RNull, e) :
     e \in {EAbsent, EList(<<>>), EList(<<"Invalid IP">>), EList(<<"">>),
            EList(<<Undefined>>), EList(<<"Invalid IP", "Rate limited">>)}} \cup
  {CfObject(Undefined, RAbsent, e) : e \in {EAbsent, EList(<<"Authentication error">>)}}

JiraBodies == {Garbled, JsonNull, JiraObject("SEC-1"), JiraObject("SEC-2"), JiraObject(Undefined)}

\* The outcome of one fetch(): it throws (the request never reached the remote
\* system), or it resolves with a response whose status is 2xx (ok) or not and
\* whose body is `data`.  `accepted` records whether the remote system applied
\* the call; the program cannot see it.
NoReply == [kind |-> "none", ok |-> FALSE, data |-> NoData, accepted |-> FALSE]
Thrown == [kind |-> "throw", ok |-> FALSE, data |-> NoData, accepted |-> FALSE]
Resp(ok, data, accepted) == [kind |-> "response", ok |-> ok, data |-> data, accepted |-> accepted]

\* Cloudflare reports acceptance in the body's success flag; a body that is no
\* object comes with the status of the gateway that produced it.
CfReplies ==
  {Thrown} \cup
  {Resp(ok, d, IF d.shape = "object" THEN d.success = "<true>" ELSE ok) :
     ok \in BOOLEAN, d \in CfBodies}

\* Jira and Slack report acceptance in the HTTP status.
JiraReplies == {Thrown} \cup {Resp(ok, d, ok) : ok \in BOOLEAN, d \in JiraBodies}
SlackReplies == {Thrown} \cup {Resp(ok, NoData, ok) : ok \in BOOLEAN}

ConcCfReplies ==
  {Thrown,
   Resp(TRUE, CfObject("<true>", RObj("rule-1"), EList(<<>>)), TRUE),
   Resp(FALSE, CfObject("<false>", RNull, EList(<<"Invalid IP">>)), FALSE)}
ConcJiraReplies == {Resp(TRUE, JiraObject("SEC-1"), TRUE), Resp(FALSE, Garbled, FALSE)}
ConcSlackReplies == {Thrown, Resp(TRUE, NoData, TRUE)}

(***************************************************************************)
(* Responses, log lines and outbound calls                                 *)
(***************************************************************************)
\* A JSON response body; res.json() leaves out the keys whose value is undefined.
EmptyJson ==
  [status |-> Undefined, message |-> <<>>, action_taken |-> Undefined, action |-> Undefined,
   target |-> Undefined, method |-> Undefined, cloudflare_rule_id |-> Undefined,
   jira_ticket |-> Undefined, executed_at |-> <<>>]

NoResponse == [code |-> 0, json |-> EmptyJson]

\* console.error(tag, data) and console.error(tag, err.message)
LogData(tag, data) == [tag |-> tag, message |-> <<>>, data |-> data]
LogMessage(tag, message) == [tag |-> tag, message |-> message, data |-> NoData]

\* The state of one handler invocation: where it is suspended, the body it was
\* given, the fetch() calls it has issued, the reply to its call, the lines it
\* has logged and the response it has sent.
Idle == [pc |-> "idle", body |-> NoBody, calls |-> <<>>, reply |-> NoReply,
         log |-> <<>>, res |-> NoResponse]

\* Messages of the errors thrown by the runtime and by node-fetch.
TransportError == <<"request to ", "<url>", " failed">>
InvalidJson == <<"invalid json response body at ", "<url>">>
CannotRead(of, prop) == <<"Cannot read properties of ", of, " (reading '", prop, "')">>

\* catch (err): log the message (the tag without its emoji), answer 500 with it.
Catch(r, message) ==
  [r EXCEPT !.pc = "done",
            !.log = Append(@, LogMessage("Remediation error:", message)),
            !.res = [code |-> 500,
                     json |-> [EmptyJson EXCEPT !.status = "error", !.message = message]]]

\* res.status(code).json(json)
Send(r, code, json) == [r EXCEPT !.pc = "done", !.res = [code |-> code, json |-> json]]

\* const { action, target, severity = "medium" } = req.body
Destructure(body) ==
  [action |-> body.action,
   target |-> body.target,
   severity |-> IF body.severity = Undefined THEN "medium" ELSE body.severity]

\* Mutant: only a missing field counts, as with `action === undefined`.
ActionMissing_UndefinedOnly(action) == action = Undefined

\* if (!action)
ActionMissing(action) == ~Truthy(action)

\* Mutant: the action is matched without regard to case.
Route_IgnoreCase(action) ==
  CASE action \in {"block_ip", "Block_IP"} -> "firewall"
    [] action \in {"rate_limit_ip", "add_waf_rule", "block_endpoint"} -> "ticketing"
    [] action \in {"alert_sre", "ALERT_SRE"} -> "notification"
    [] OTHER -> "none"

\* Mutant: block_endpoint is executed on the firewall like block_ip.
Route_EndpointToFirewall(action) ==
  CASE action \in {"block_ip", "block_endpoint"} -> "firewall"
    [] action \in {"rate_limit_ip", "add_waf_rule"} -> "ticketing"
    [] action = "alert_sre" -> "notification"
    [] OTHER -> "none"

\* The chain of === tests on `action`.
Route(action) ==
  CASE action = "block_ip" -> "firewall"
    [] action \in {"rate_limit_ip", "add_waf_rule", "block_endpoint"} -> "ticketing"
    [] action = "alert_sre" -> "notification"
    [] OTHER -> "none"

CloudflareConfigMissing(e) == ~Truthy(e["CF_ZONE_ID"]) \/ ~Truthy(e["CF_API_TOKEN"])

\* Mutant: the project key is not checked.
JiraConfigMissing_NoProject(e) ==
  \/ ~Truthy(e["JIRA_BASE"])
  \/ ~Truthy(e["JIRA_MAIL"])
  \/ ~Truthy(e["JIRA_API"])

JiraConfigMissing(e) ==
  \/ ~Truthy(e["JIRA_BASE"])
  \/ ~Truthy(e["JIRA_MAIL"])
  \/ ~Truthy(e["JIRA_API"])
  \/ ~Truthy(e["JIRA_PROJECT"])

SlackConfigMissing(e) == ~Truthy(e["SLACK_WEBHOOK_URL"])

\* The fetch() of blockIPCloudflare.
CloudflareCall(e, ip) ==
  [api |-> "cloudflare",
   method |-> "POST",
   url |-> <<"https://api.cloudflare.com/client/v4/zones/", e["CF_ZONE_ID"],
             "/firewall/access_rules/rules">>,
   authorization |-> <<"Bearer ", e["CF_API_TOKEN"]>>,
   mode |-> "block",
   configuration |-> [target |-> "ip", value |-> ip],
   notes |-> "ThreatPilot automated remediation"]

\* Mutant: the severity is compared without regard to case.
Priority_IgnoreCase(severity) ==
  IF severity \in {"high", "High", "HIGH"} THEN "High" ELSE "Medium"

\* severity === "high" ? "High" : "Medium"
Priority(severity) == IF severity = "high" THEN "High" ELSE "Medium"

\* The argument the handler builds for createJiraTicket.
TicketArgs(action, target, severity) ==
  [summary |-> <<"[ThreatPilot] ", ReplaceAllUpper(action)>>,
   description |-> [action |-> ToStr(action), target |-> JsonStringify(target),
                    severity |-> ToStr(severity)],
   priority |-> Priority(severity)]

\* The fetch() of createJiraTicket.
JiraCall(e, args) ==
  [api |-> "jira",
   method |-> "POST",
   url |-> <<e["JIRA_BASE"], "/rest/api/3/issue">>,
   authorization |-> <<"Basic ", "base64(", e["JIRA_MAIL"], ":", e["JIRA_API"], ")">>,
   project |-> e["JIRA_PROJECT"],
   summary |-> args.summary,
   description |-> args.description,
   issuetype |-> "Task",
   priority |-> args.priority,
   labels |-> <<"threatpilot", "automated">>]

\* The fetch() of alertSRESlack; payload is req.body, untouched.  The emoji and
\* the dash of the header are written in ASCII; context is the clock reading.
SlackCall(e, payload, clock) ==
  [api |-> "slack",
   method |-> "POST",
   url |-> <<e["SLACK_WEBHOOK_URL"]>>,
   text |-> ":rotating_light: *Security Alert - ThreatPilot*",
   section1 |-> <<"*Threat:* ", OrElse(payload.threat, "Unknown"),
                  "\n*Severity:* ", OrElse(payload.severity, "Medium")>>,
   section2 |-> <<"*Target:* ", OrElse(payload.target, "N/A"),
                  "\n*Recommended Action:* ", ToStr(payload.action)>>,
   context |-> <<clock>>]

\* fetch(...): the call goes out and the handler suspends at `at`.
Fetch(r, call, at) == [r EXCEPT !.pc = at, !.calls = Append(@, call)]

\* The handler from its entry to its first await, or to its response when it
\* awaits nothing.
Execute(body, e, clock) ==
  LET d == Destructure(body)
      r == [Idle EXCEPT !.body = body]
      to == Route(d.action)
  IN IF ActionMissing(d.action)
     THEN Send(r, 400, [EmptyJson EXCEPT !.status = "error",
                                         !.message = <<"Action is required">>])
     ELSE IF to = "firewall"
     THEN IF CloudflareConfigMissing(e)
          THEN Catch(r, <<"Cloudflare env vars missing">>)
          ELSE Fetch(r, CloudflareCall(e, d.target), "cloudflare_fetch")
     ELSE IF to = "ticketing"
     THEN IF JiraConfigMissing(e)
          THEN Catch(r, <<"Jira environment variables missing">>)
          ELSE Fetch(r, JiraCall(e, TicketArgs(d.action, d.target, d.severity)), "jira_fetch")
     ELSE IF to = "notification"
     THEN IF SlackConfigMissing(e)
          THEN Catch(r, <<"Slack webhook not configured">>)
          ELSE Fetch(r, SlackCall(e, body, clock), "slack_fetch")
     ELSE Send(r, 400, [EmptyJson EXCEPT !.status = "ignored",
                                         !.message = <<"Unsupported action">>])

(***************************************************************************)
(* The handler after each await                                            *)
(***************************************************************************)
\* await fetch(url, ...) settles: a rejection unwinds to the handler's catch,
\* a response is kept and the handler goes on to read its body at `at`.
Fetched(r, reply, at) ==
  IF reply.kind = "throw"
  THEN Catch([r EXCEPT !.reply = reply], TransportError)
  ELSE [r EXCEPT !.pc = at, !.reply = reply]

\* if (!data.success)
CloudflareRejected(data) == ~Truthy(data.success)

\* Mutant: the last error of the remote reply is reported instead of the first.
CloudflareErrorMessage_Last(data) ==
  LET last == IF data.errors.present /\ Len(data.errors.items) > 0
              THEN data.errors.items[Len(data.errors.items)].message
              ELSE Undefined
  IN OrElse(last, "Cloudflare block failed")

\* data.errors?.[0]?.message || "Cloudflare block failed"
CloudflareErrorMessage(data) ==
  LET first == IF data.errors.present /\ Len(data.errors.items) > 0
               THEN data.errors.items[1].message
               ELSE Undefined
  IN OrElse(first, "Cloudflare block failed")

\* The 200 response of the block_ip branch; rule is data.result, an object.
BlockIpJson(target, rule, clock) ==
  [EmptyJson EXCEPT !.status = "success",
                    !.action_taken = "block_ip",
                    !.target = target,
                    !.method = "cloudflare_firewall",
                    !.cloudflare_rule_id = rule.id,
                    !.message = <<"IP ", ToStr(target), " blocked via Cloudflare">>,
                    !.executed_at = <<clock>>]

\* await response.json() settles in blockIPCloudflare, and the handler runs
\* to its response.
CloudflareParsed(r, clock) ==
  LET data == r.reply.data
      rule == data.result
  IN IF data.shape = "garbled" THEN Catch(r, InvalidJson)
     ELSE IF data.shape = "null" THEN Catch(r, CannotRead("null", "success"))
     ELSE IF CloudflareRejected(data)
     THEN Catch([r EXCEPT !.log = Append(@, LogData("Cloudflare error:", data))],
                <<ToStr(CloudflareErrorMessage(data))>>)
     ELSE IF rule.shape = "absent" THEN Catch(r, CannotRead("undefined", "id"))
     ELSE IF rule.shape = "null" THEN Catch(r, CannotRead("null", "id"))
     ELSE Send(r, 200, BlockIpJson(Destructure(r.body).target, rule, clock))

\* The 200 response of the ticketing branch.
PendingJson(action, target, jiraKey) ==
  [EmptyJson EXCEPT !.status = "pending_approval",
                    !.action = action,
                    !.target = target,
                    !.jira_ticket = jiraKey]

\* await res.json() settles in createJiraTicket, and the handler runs to its
\* response.
JiraParsed(r) ==
  LET data == r.reply.data
      d == Destructure(r.body)
  IN IF data.shape = "garbled" THEN Catch(r, InvalidJson)
     ELSE IF ~r.reply.ok
     THEN Catch([r EXCEPT !.log = Append(@, LogData("Jira error:", data))],
                <<"Failed to create Jira ticket">>)
     ELSE IF data.shape = "null" THEN Catch(r, CannotRead("null", "key"))
     ELSE Send(r, 200, PendingJson(d.action, d.target, data.key))

\* The 200 response of the alert_sre branch.
AlertJson(clock) ==
  [EmptyJson EXCEPT !.status = "success",
                    !.action_taken = "alert_sre",
                    !.method = "slack_notification",
                    !.message = <<"SRE alerted via Slack">>,
                    !.executed_at = <<clock>>]

\* Mutant: a webhook reply that is not 2xx is turned into an error, as the
\* ticketing client does.
SlackSettled_CheckOk(r, reply, clock) ==
  IF reply.kind = "throw"
  THEN Catch([r EXCEPT !.reply = reply], TransportError)
  ELSE IF ~reply.ok
  THEN Catch([r EXCEPT !.reply = reply], <<"Slack alert failed">>)
  ELSE Send([r EXCEPT !.reply = reply], 200, AlertJson(clock))

\* await fetch(webhook, ...) settles in alertSRESlack; the response is not
\* looked at, and the handler runs to its response.
SlackSettled(r, reply, clock) ==
  IF reply.kind = "throw"
  THEN Catch([r EXCEPT !.reply = reply], TransportError)
  ELSE Send([r EXCEPT !.reply = reply], 200, AlertJson(clock))

(***************************************************************************)
(* State and actions                                                       *)
(***************************************************************************)
VARIABLES
  env,   \* process.env, fixed when the process starts
  now,   \* the wall clock
  reqs   \* the handler invocation of each request slot

vars == <<env, now, reqs>>

TypeOK ==
  /\ env \in Environments
  /\ now \in 0..MaxClock
  /\ \A i \in Reqs :
       reqs[i].pc \in {"idle", "cloudflare_fetch", "cloudflare_json", "jira_fetch",
                       "jira_json", "slack_fetch", "done"}

\* After app.listen(): no request yet.
Init ==
  /\ env \in Environments
  /\ now = 0
  /\ reqs = [i \in Reqs |-> Idle]

\* The same, in a deployment with every variable set.
InitConc ==
  /\ env = AllSet
  /\ now = 0
  /\ reqs = [i \in Reqs |-> Idle]

\* Mutant: a block_ip request whose body another request has already sent to
\* the firewall is answered without a second call.
Receive_Dedup(i, b) ==
  /\ reqs[i].pc = "idle"
  /\ reqs' = [reqs EXCEPT ![i] =
       IF /\ b.action = "block_ip"
          /\ \E j \in Reqs \ {i} : reqs[j].body = b /\ reqs[j].calls # <<>>
       THEN Send([Idle EXCEPT !.body = b], 200,
                 [EmptyJson EXCEPT !.status = "success", !.action_taken = "block_ip",
                                   !.target = b.target])
       ELSE Execute(b, env, now)]
  /\ UNCHANGED <<env, now>>

\* POST /execute arrives with body b: the handler runs to its first await.
Receive(i, b) ==
  /\ reqs[i].pc = "idle"
  /\ reqs' = [reqs EXCEPT ![i] = Execute(b, env, now)]
  /\ UNCHANGED <<env, now>>

CloudflareFetchSettles(i, reply) ==
  /\ reqs[i].pc = "cloudflare_fetch"
  /\ reqs' = [reqs EXCEPT ![i] = Fetched(@, reply, "cloudflare_json")]
  /\ UNCHANGED <<env, now>>

CloudflareJsonSettles(i) ==
  /\ reqs[i].pc = "cloudflare_json"
  /\ reqs' = [reqs EXCEPT ![i] = CloudflareParsed(@, now)]
  /\ UNCHANGED <<env, now>>

JiraFetchSettles(i, reply) ==
  /\ reqs[i].pc = "jira_fetch"
  /\ reqs' = [reqs EXCEPT ![i] = Fetched(@, reply, "jira_json")]
  /\ UNCHANGED <<env, now>>

JiraJsonSettles(i) ==
  /\ reqs[i].pc = "jira_json"
  /\ reqs' = [reqs EXCEPT ![i] = JiraParsed(@)]
  /\ UNCHANGED <<env, now>>

SlackFetchSettles(i, reply) ==
  /\ reqs[i].pc = "slack_fetch"
  /\ reqs' = [reqs EXCEPT ![i] = SlackSettled(@, reply, now)]
  /\ UNCHANGED <<env, now>>

\* The response has been delivered and the connection is released.
Close(i) ==
  /\ reqs[i].pc = "done"
  /\ reqs' = [reqs EXCEPT ![i] = Idle]
  /\ UNCHANGED <<env, now>>

Tick ==
  /\ now < MaxClock
  /\ now' = now + 1
  /\ UNCHANGED <<env, reqs>>

\* No request is being handled or awaiting delivery.
Quiet == \A j \in Reqs : reqs[j].pc = "idle"

\* The connection a lone client uses.
First == CHOOSE i \in Reqs : \A j \in Reqs : i <= j

\* Workload 1: one client that sends any request, one at a time.
Arrive == \E b \in Bodies : Quiet /\ Receive(First, b)
CloudflareAnswers == \E i \in Reqs, reply \in CfReplies : CloudflareFetchSettles(i, reply)
CloudflareBodyRead == \E i \in Reqs : CloudflareJsonSettles(i)
JiraAnswers == \E i \in Reqs, reply \in JiraReplies : JiraFetchSettles(i, reply)
JiraBodyRead == \E i \in Reqs : JiraJsonSettles(i)
SlackAnswers == \E i \in Reqs, reply \in SlackReplies : SlackFetchSettles(i, reply)
Release == \E i \in Reqs : Close(i)

Next ==
  \/ Arrive
  \/ CloudflareAnswers
  \/ CloudflareBodyRead
  \/ JiraAnswers
  \/ JiraBodyRead
  \/ SlackAnswers
  \/ Release
  \/ Tick

Spec == Init /\ [][Next]_vars

\* Workload 2: clients that send requests concurrently, one per slot.
ArriveConc == \E i \in Reqs, b \in ConcBodies : Receive(i, b)
CloudflareAnswersConc == \E i \in Reqs, reply \in ConcCfReplies : CloudflareFetchSettles(i, reply)
JiraAnswersConc == \E i \in Reqs, reply \in ConcJiraReplies : JiraFetchSettles(i, reply)
SlackAnswersConc == \E i \in Reqs, reply \in ConcSlackReplies : SlackFetchSettles(i, reply)

NextConc ==
  \/ ArriveConc
  \/ CloudflareAnswersConc
  \/ CloudflareBodyRead
  \/ JiraAnswersConc
  \/ JiraBodyRead
  \/ SlackAnswersConc
  \/ Tick

SpecConc == InitConc /\ [][NextConc]_vars

(***************************************************************************)
(* Properties                                                              *)
(***************************************************************************)
Handled(i) == reqs[i].pc # "idle"
Done(i) == reqs[i].pc = "done"
Unset(v) == env[v] \in {Undefined, ""}
IsSet(v) == ~Unset(v)

\* C1: a request whose action is absent or empty, whatever its other fields,
\* is answered at once with 400, status "error", message "Action is
\* required", and no outbound call is made for it.
C1_MissingActionRejected ==
  \A i \in Reqs :
    (Handled(i) /\ reqs[i].body.action \in {Undefined, ""}) =>
       /\ Done(i)
       /\ reqs[i].res.code = 400
       /\ reqs[i].res.json.status = "error"
       /\ reqs[i].res.json.message = <<"Action is required">>
       /\ reqs[i].calls = <<>>

\* C1 witness: the body {} has been answered with 400.
C1_Witness ==
  \E i \in Reqs :
    /\ Done(i)
    /\ reqs[i].body = NoBody
    /\ reqs[i].res.code = 400
    /\ reqs[i].res.json.status = "error"

\* C2: a request whose action is a non-empty value other than the five known
\* action names, compared exactly, is answered at once with 400, status
\* "ignored", message "Unsupported action", and no outbound call is made.
C2_UnsupportedActionIgnored ==
  \A i \in Reqs :
    (/\ Handled(i)
     /\ reqs[i].body.action \notin {Undefined, Null, ""}
     /\ reqs[i].body.action \notin
          {"block_ip", "rate_limit_ip", "add_waf_rule", "block_endpoint", "alert_sre"}) =>
       /\ Done(i)
       /\ reqs[i].res.code = 400
       /\ reqs[i].res.json.status = "ignored"
       /\ reqs[i].res.json.message = <<"Unsupported action">>
       /\ reqs[i].calls = <<>>

\* C2 witness: "Block_IP", a case variant of a known action, has been ignored.
C2_Witness ==
  \E i \in Reqs :
    /\ Done(i)
    /\ reqs[i].body.action = "Block_IP"
    /\ reqs[i].res.json.status = "ignored"

\* C3: block_ip with zone id and token configured, answered by the remote API
\* with a body whose success flag is true: the response is 200, status
\* "success", action_taken "block_ip", the request's target, and
\* cloudflare_rule_id is the rule id the remote API returned.
C3_BlockIpSuccess ==
  \A i \in Reqs :
    (/\ Done(i)
     /\ reqs[i].body.action = "block_ip"
     /\ IsSet("CF_ZONE_ID") /\ IsSet("CF_API_TOKEN")
     /\ reqs[i].reply.kind = "response"
     /\ reqs[i].reply.data.shape = "object"
     /\ reqs[i].reply.data.success = "<true>") =>
       /\ reqs[i].res.code = 200
       /\ reqs[i].res.json.status = "success"
       /\ reqs[i].res.json.action_taken = "block_ip"
       /\ reqs[i].res.json.target = reqs[i].body.target
       /\ reqs[i].res.json.cloudflare_rule_id = reqs[i].reply.data.result.id

\* C4: a request routed to a client one of whose configuration values is absent
\* (or empty) is answered with 500, status "error" and the client's
\* missing-configuration message, and no outbound call is made for it.
C4_MissingConfiguration ==
  \A i \in Reqs :
    LET a == reqs[i].body.action
        failed(text) ==
          /\ Done(i)
          /\ reqs[i].res.code = 500
          /\ reqs[i].res.json.status = "error"
          /\ reqs[i].res.json.message = <<text>>
          /\ reqs[i].calls = <<>>
    IN Handled(i) =>
         /\ (a = "block_ip" /\ (Unset("CF_ZONE_ID") \/ Unset("CF_API_TOKEN")))
              => failed("Cloudflare env vars missing")
         /\ (/\ a \in {"rate_limit_ip", "add_waf_rule", "block_endpoint"}
             /\ \/ Unset("JIRA_BASE") \/ Unset("JIRA_MAIL")
                \/ Unset("JIRA_API") \/ Unset("JIRA_PROJECT"))
              => failed("Jira environment variables missing")
         /\ (a = "alert_sre" /\ Unset("SLACK_WEBHOOK_URL"))
              => failed("Slack webhook not configured")

\* C4 witness: a ticketing request was answered 500 in a deployment that lacks
\* only the Jira project key.
C4_Witness ==
  \E i \in Reqs :
    /\ Done(i)
    /\ reqs[i].body.action = "add_waf_rule"
    /\ env = [AllSet EXCEPT !["JIRA_PROJECT"] = Undefined]
    /\ reqs[i].res.code = 500
    /\ reqs[i].calls = <<>>

\* C5: a rate_limit_ip, add_waf_rule or block_endpoint request, whatever its
\* severity and target, never issues a firewall call: its outbound calls are at
\* most one, a ticket creation (exactly one once Jira is configured), and when
\* that call succeeds the response is 200, status "pending_approval", with the
\* request's action and target and the key the tracker returned.
C5_TicketNeverExecuted ==
  \A i \in Reqs :
    (Handled(i) /\ reqs[i].body.action \in {"rate_limit_ip", "add_waf_rule", "block_endpoint"}) =>
       /\ \A k \in DOMAIN reqs[i].calls : reqs[i].calls[k].api = "jira"
       /\ Len(reqs[i].calls) <= 1
       /\ (IsSet("JIRA_BASE") /\ IsSet("JIRA_MAIL") /\ IsSet("JIRA_API") /\ IsSet("JIRA_PROJECT"))
            => Len(reqs[i].calls) = 1
       /\ (/\ Done(i)
           /\ reqs[i].reply.kind = "response"
           /\ reqs[i].reply.ok
           /\ reqs[i].reply.data.shape = "object") =>
              /\ reqs[i].res.code = 200
              /\ reqs[i].res.json.status = "pending_approval"
              /\ reqs[i].res.json.action = reqs[i].body.action
              /\ reqs[i].res.json.target = reqs[i].body.target
              /\ reqs[i].res.json.jira_ticket = reqs[i].reply.data.key

\* C5 witness: a high-severity block_endpoint request ended pending approval
\* with ticket SEC-2 after a single Jira call.
C5_Witness ==
  \E i \in Reqs :
    /\ Done(i)
    /\ reqs[i].body.action = "block_endpoint"
    /\ reqs[i].body.severity = "high"
    /\ Len(reqs[i].calls) = 1
    /\ reqs[i].calls[1].api = "jira"
    /\ reqs[i].res.json.status = "pending_approval"
    /\ reqs[i].res.json.jira_ticket = "SEC-2"

\* C6: the ticket-creation call of a ticketing request asks for priority "High"
\* exactly when the request's severity is the string "high"; otherwise
\* (severity left out, which defaults to "medium", or any other value such as
\* "High" or "HIGH") it asks for "Medium".
C6_PriorityFromSeverity ==
  \A i \in Reqs :
    (/\ Handled(i)
     /\ reqs[i].body.action \in {"rate_limit_ip", "add_waf_rule", "block_endpoint"}
     /\ reqs[i].calls # <<>>) =>
       /\ reqs[i].body.severity = "high" => reqs[i].calls[1].priority = "High"
       /\ reqs[i].body.severity # "high" => reqs[i].calls[1].priority = "Medium"
       /\ reqs[i].body.severity = Undefined => reqs[i].calls[1].description.severity = "medium"

\* C6 witness: a ticket was requested for severity "HIGH" with priority Medium.
C6_Witness ==
  \E i \in Reqs :
    /\ reqs[i].body.action = "add_waf_rule"
    /\ reqs[i].body.severity = "HIGH"
    /\ reqs[i].calls # <<>>
    /\ reqs[i].calls[1].priority = "Medium"

\* The outbound calls to the firewall API made so far, as (request, call) pairs.
CloudflareAttempts ==
  UNION {{<<i, k>> : k \in {n \in DOMAIN reqs[i].calls : reqs[i].calls[n].api = "cloudflare"}} :
         i \in Reqs}

BlockIpRequests == {i \in Reqs : Handled(i) /\ reqs[i].body.action = "block_ip"}

\* C7: nothing is deduplicated or shared between requests.  With the firewall
\* configured, in every interleaving each block_ip request has made exactly one
\* block-rule call, for its own target, so k requests make k attempts; and two
\* requests with the same body and the same reply to their own call get the
\* same response, up to executed_at, the clock reading each takes for itself.
C7_NoDeduplication ==
  /\ \A i \in BlockIpRequests :
       /\ Len(reqs[i].calls) = 1
       /\ reqs[i].calls[1].api = "cloudflare"
       /\ reqs[i].calls[1].configuration.value = reqs[i].body.target
  /\ Cardinality(CloudflareAttempts) = Cardinality(BlockIpRequests)
  /\ \A i, j \in BlockIpRequests :
       (Done(i) /\ Done(j) /\ reqs[i].body = reqs[j].body /\ reqs[i].reply = reqs[j].reply) =>
          /\ reqs[i].res.code = reqs[j].res.code
          /\ [reqs[i].res.json EXCEPT !.executed_at = <<>>] =
             [reqs[j].res.json EXCEPT !.executed_at = <<>>]
          /\ reqs[i].log = reqs[j].log

\* C7 witness: two identical block_ip requests have both been answered 200,
\* at different times, after two calls to the firewall API.
C7_Witness ==
  \E i, j \in Reqs :
    /\ i # j
    /\ Done(i) /\ Done(j)
    /\ reqs[i].body.action = "block_ip"
    /\ reqs[i].body = reqs[j].body
    /\ reqs[i].res.code = 200 /\ reqs[j].res.code = 200
    /\ reqs[i].res.json.executed_at # reqs[j].res.json.executed_at
    /\ Cardinality(CloudflareAttempts) >= 2

\* C8: a remediation is never partially applied; in particular no request whose
\* call the remote system accepted (the firewall rule or the ticket exists) is
\* answered with a 500.
C8_AcceptedNeverAnswered500 ==
  \A i \in Reqs :
    (/\ Done(i)
     /\ reqs[i].body.action \in {"block_ip", "rate_limit_ip", "add_waf_rule", "block_endpoint"}
     /\ reqs[i].calls # <<>>) =>
       \/ reqs[i].res.code = 200 /\ reqs[i].reply.accepted
       \/ reqs[i].res.code = 500 /\ ~reqs[i].reply.accepted

\* C9: block_ip with the firewall configured and a remote reply whose success
\* flag is false, whatever its HTTP status: the handler logs the remote reply,
\* then fails, and the response is 500, status "error", with the first error
\* message of the reply when it has one and "Cloudflare block failed" otherwise.
C9_RemoteRejectionSurfaced ==
  \A i \in Reqs :
    LET data == reqs[i].reply.data
        items == data.errors.items
        first == IF data.errors.present /\ items # <<>> THEN items[1].message ELSE Undefined
        text == IF first \in {Undefined, Null, ""} THEN "Cloudflare block failed" ELSE first
    IN (/\ Done(i)
        /\ reqs[i].body.action = "block_ip"
        /\ IsSet("CF_ZONE_ID") /\ IsSet("CF_API_TOKEN")
        /\ reqs[i].reply.kind = "response"
        /\ data.shape = "object"
        /\ data.success = "<false>") =>
          /\ reqs[i].res.code = 500
          /\ reqs[i].res.json.status = "error"
          /\ reqs[i].res.json.message = <<text>>
          /\ reqs[i].log = <<LogData("Cloudflare error:", data),
                             LogMessage("Remediation error:", <<text>>)>>

\* C9 witness: a 2xx reply with success false and two errors was answered 500
\* with the first of them.
C9_Witness ==
  \E i \in Reqs :
    /\ Done(i)
    /\ reqs[i].body.action = "block_ip"
    /\ reqs[i].reply.ok
    /\ reqs[i].reply.data.success = "<false>"
    /\ Len(reqs[i].reply.data.errors.items) = 2
    /\ reqs[i].res.code = 500
    /\ reqs[i].res.json.message = <<"Invalid IP">>

\* C10: alert_sre with the webhook configured is answered 200, status
\* "success", method "slack_notification" whenever the webhook call does not
\* throw, whatever the status of the webhook's reply, and 500 only when the
\* call throws; the firewall and ticketing clients answer 500 to a remote
\* rejection.
C10_SlackReplyNotInspected ==
  \A i \in Reqs :
    Done(i) =>
      /\ (reqs[i].body.action = "alert_sre" /\ IsSet("SLACK_WEBHOOK_URL")) =>
            /\ reqs[i].reply.kind = "response" =>
                 /\ reqs[i].res.code = 200
                 /\ reqs[i].res.json.status = "success"
                 /\ reqs[i].res.json.method = "slack_notification"
            /\ reqs[i].reply.kind = "throw" => reqs[i].res.code = 500
            /\ reqs[i].reply.kind \in {"response", "throw"}
      /\ (/\ reqs[i].body.action = "block_ip"
          /\ reqs[i].reply.kind = "response"
          /\ reqs[i].reply.data.shape = "object"
          /\ reqs[i].reply.data.success = "<false>") => reqs[i].res.code = 500
      /\ (/\ reqs[i].body.action \in {"rate_limit_ip", "add_waf_rule", "block_endpoint"}
          /\ reqs[i].reply.kind = "response"
          /\ ~reqs[i].reply.ok) => reqs[i].res.code = 500

\* C10 witness: an alert whose webhook replied with a non-2xx status was
\* answered 200.
C10_Witness ==
  \E i \in Reqs :
    /\ Done(i)
    /\ reqs[i].body.action = "alert_sre"
    /\ reqs[i].reply.kind = "response"
    /\ ~reqs[i].reply.ok
    /\ reqs[i].res.code = 200

====
